---- MODULE Spec2Model ----
(***************************************************************************)
(* Model of the root route of the storefront (root.tsx: shouldRevalidate,  *)
(* loader, loadCriticalData, loadDeferredData, getLayoutData, MainLayout,  *)
(* ErrorBoundary) and of the NcModal component.                            *)
(*                                                                         *)
(* Four specifications share the variables; each leaves the variables of   *)
(* the other parts at their idle values:                                   *)
(*   Spec / FairSpec  one page request through the root loader and render  *)
(*   RevalidateSpec   shouldRevalidate applied to one navigation event     *)
(*   ModalSpec        the NcModal component under clicks and re-renders    *)
(*   ErrorSpec        ErrorBoundary applied to one route error             *)
(***************************************************************************)
EXTENDS Integers, Sequences, FiniteSets, TLC

VARIABLES
    \* ---- shouldRevalidate ----
    rvArgs,         \* the argument of shouldRevalidate
    rvCalled,       \* shouldRevalidate has been called
    rvResult,       \* its return value
    \* ---- loader ----
    i18n,           \* context.storefront.i18n
    layoutQuery,    \* storefront.query(LAYOUT_QUERY) promise
    okendoQuery,    \* getOkendoProviderData(...) promise
    call,           \* underlying call of each deferred fetch
    deferred,       \* the promise held by each deferred field of PageData
    issued,         \* how many times each data source has been invoked
    loaderState,    \* "init", "awaitCritical", "returned", "failed"
    pageData,       \* critical part of the value passed to defer(), or NoData
    rendered,       \* MainLayout has rendered
    locale,         \* the locale MainLayout rendered with
    offered,        \* deferred slots MainLayout handed to the rendering layer
    \* ---- NcModal ----
    isOpenProp,     \* the isOpenProp prop: Undefined, "true" or "false"
    hasOnClose,     \* the onCloseModal prop is supplied
    isOpen,         \* the isOpen state
    effectPending,  \* the useEffect on [isOpenProp] is scheduled
    lastOp,         \* the last handler that ran
    onCloseFired,   \* the last handler invoked onCloseModal
    onCloseCalls,   \* number of onCloseModal invocations so far
    \* ---- ErrorBoundary ----
    routeError,     \* the value returned by useRouteError()
    errorProp,      \* the error prop of ErrorBoundary
    boundary        \* what ErrorBoundary rendered

rvVars == <<rvArgs, rvCalled, rvResult>>
loaderVars == <<i18n, layoutQuery, okendoQuery, call, deferred, issued,
                loaderState, pageData, rendered, locale, offered>>
modalVars == <<isOpenProp, hasOnClose, isOpen, effectPending, lastOp,
               onCloseFired, onCloseCalls>>
errorVars == <<routeError, errorProp, boundary>>
vars == <<rvVars, loaderVars, modalVars, errorVars>>

Undefined == "undefined"

\* ---------------------------------------------------------------------------
\* Bounds
\* ---------------------------------------------------------------------------
MaxPath == 2        \* pathnames /p1 .. /pMaxPath
MaxSearch == 1      \* search strings "" and ?q1 .. ?qMaxSearch
MaxLocale == 2      \* locales the context can carry
MaxCloseCalls == 3  \* onCloseModal invocations followed
MaxStatusOffset == 5 \* route error statuses 400 .. 400 + MaxStatusOffset

\* ---------------------------------------------------------------------------
\* shouldRevalidate
\* ---------------------------------------------------------------------------

\* A URL object: its components after parsing.
Urls == [pathname : 1..MaxPath, search : 0..MaxSearch]

\* URL.prototype.toString(): the href, as a sequence of tokens.
UrlToString(u) ==
    <<"https://shop", "/p", u.pathname>> \o
        (IF u.search = 0 THEN <<>> ELSE <<"?q", u.search>>)

\* formMethod: absent, or one of the form methods of the router.
FormMethods == {Undefined, "GET", "POST", "PUT", "PATCH", "DELETE"}

RevalidateArgs ==
    [formMethod : FormMethods, currentUrl : Urls, nextUrl : Urls,
     defaultShouldRevalidate : BOOLEAN]

shouldRevalidate_NoMutationRule(args) ==
    UrlToString(args.currentUrl) = UrlToString(args.nextUrl)

shouldRevalidate_PathOnly(args) ==
    IF args.formMethod # Undefined /\ args.formMethod # "GET"
    THEN TRUE
    ELSE args.currentUrl.pathname = args.nextUrl.pathname

shouldRevalidate(args) ==
    IF args.formMethod # Undefined /\ args.formMethod # "GET"
    THEN TRUE
    ELSE IF UrlToString(args.currentUrl) = UrlToString(args.nextUrl)
         THEN TRUE
         ELSE FALSE

NoArgs == [none |-> TRUE]

RevalidateIdle == rvArgs = NoArgs /\ rvCalled = FALSE /\ rvResult = FALSE

RevalidateInit ==
    rvArgs \in RevalidateArgs /\ rvCalled = FALSE /\ rvResult = FALSE

\* The router calls shouldRevalidate on a navigation event.
CallShouldRevalidate ==
    /\ ~rvCalled
    /\ rvCalled' = TRUE
    /\ rvResult' = shouldRevalidate(rvArgs)
    /\ UNCHANGED <<rvArgs, loaderVars, modalVars, errorVars>>

\* ---------------------------------------------------------------------------
\* loader, loadCriticalData, loadDeferredData, getLayoutData
\* ---------------------------------------------------------------------------

\* The deferred fields of the value returned by loadDeferredData.  The fields
\* isLoggedIn and isLoggedInPromise hold the same promise.
Slots == {"isLoggedIn", "cart", "headerPromise", "footerPromise"}

\* Promise states.
Pending == "pending"
Fulfilled == "fulfilled"
FulfilledNull == "fulfilledNull"    \* fulfilled with null/undefined
Rejected == "rejected"
NotIssued == "notIssued"

\* Values of context.storefront.i18n (a language/country pair each).
LocaleNames == <<"EN-US", "FR-CA", "DE-DE", "ES-ES", "JA-JP", "PT-BR">>
Locales == {LocaleNames[i] : i \in 1..MaxLocale}

\* useRouteLoaderData when the root loader returned nothing.
NoData == [undefined |-> TRUE]

\* DEFAULT_LOCALE of ./lib/utils, as an opaque value distinct from every
\* locale a context carries.
DEFAULT_LOCALE == "DEFAULT_LOCALE"

\* getLayoutData: awaits the layout query, then invariant(data, ...).
getLayoutData_NoInvariant(q) ==
    IF q = FulfilledNull THEN Fulfilled ELSE q

getLayoutData(q) ==
    IF q = FulfilledNull THEN Rejected ELSE q

\* Promise.all over two promises: rejected as soon as one is rejected,
\* fulfilled when both are, pending otherwise.
PromiseAll(a, b) ==
    IF a = Rejected \/ b = Rejected THEN Rejected
    ELSE IF a = Fulfilled /\ b = Fulfilled THEN Fulfilled
    ELSE Pending

\* The promise awaited at the top of loadCriticalData.
CriticalJoin == PromiseAll(getLayoutData(layoutQuery), okendoQuery)

\* `await` in loader/loadCriticalData: the continuation runs once the awaited
\* promise has settled.
AwaitSettled_NoAwait(p) == TRUE

AwaitSettled_AlsoDeferred(p) ==
    p # Pending /\ \A s \in DOMAIN call : call[s] # Pending

AwaitSettled(p) == p # Pending

\* The promise loadDeferredData stores in a field, given the states of the
\* underlying calls: the promise of the call itself (no catch is attached).
DeferredField_Coupled(s, calls) ==
    IF \E t \in Slots : calls[t] = Rejected THEN Rejected ELSE calls[s]

DeferredField(s, calls) == calls[s]

\* The data sources of one loader invocation: the deferred calls, the layout
\* query and the review-provider bootstrap call.
Sources == Slots \cup {"layout", "okendoProviderData"}

\* The state of a source's promise after its call settled with outcome r:
\* the outcome itself, since no handler of the loader issues the call again.
AfterSettle_RetryOnce(src, r) ==
    IF r = Rejected /\ issued[src] < 2 THEN Pending ELSE r

AfterSettle(src, r) == r

\* The invocation count of src after its promise moved to state new.
CountIssue(src, new) ==
    IF new = Pending THEN [issued EXCEPT ![src] = @ + 1] ELSE issued

loadDeferredData(calls) == [s \in Slots |-> DeferredField(s, calls)]

\* loadCriticalData's return value once the join is fulfilled.
loadCriticalData(ctxLocale, layout, okendo) ==
    [layout |-> layout, okendoProviderData |-> okendo,
     selectedLocale |-> ctxLocale]

LoaderIdle ==
    /\ i18n = Undefined
    /\ layoutQuery = NotIssued
    /\ okendoQuery = NotIssued
    /\ call = [s \in Slots |-> NotIssued]
    /\ deferred = [s \in Slots |-> NotIssued]
    /\ issued = [src \in Sources |-> 0]
    /\ loaderState = "idle"
    /\ pageData = NoData
    /\ rendered = FALSE
    /\ locale = Undefined
    /\ offered = {}

LoaderInit ==
    /\ i18n \in Locales \cup {Undefined}
    /\ layoutQuery = NotIssued
    /\ okendoQuery = NotIssued
    /\ call = [s \in Slots |-> NotIssued]
    /\ deferred = [s \in Slots |-> NotIssued]
    /\ issued = [src \in Sources |-> 0]
    /\ loaderState = "init"
    /\ pageData = NoData
    /\ rendered = FALSE
    /\ locale = Undefined
    /\ offered = {}

\* loader up to its first await, when storefront.i18n is missing:
\* customerAccount.isLoggedIn() is called, then destructuring
\* storefront.i18n throws and the loader's promise rejects.
LoaderStartThrows ==
    /\ loaderState = "init"
    /\ i18n = Undefined
    /\ call' = [call EXCEPT !["isLoggedIn"] = Pending]
    /\ issued' = CountIssue("isLoggedIn", Pending)
    /\ loaderState' = "failed"
    /\ UNCHANGED <<i18n, layoutQuery, okendoQuery, deferred, pageData,
                   rendered, locale, offered>>
    /\ UNCHANGED <<rvVars, modalVars, errorVars>>

\* loader up to its first await: loadDeferredData issues the four deferred
\* calls, loadCriticalData issues the layout query and the review-provider
\* call and awaits their join.
LoaderStart ==
    /\ loaderState = "init"
    /\ i18n # Undefined
    /\ call' = [s \in Slots |-> Pending]
    /\ deferred' = loadDeferredData(call')
    /\ layoutQuery' = Pending
    /\ okendoQuery' = Pending
    /\ issued' = [src \in Sources |-> issued[src] + 1]
    /\ loaderState' = "awaitCritical"
    /\ UNCHANGED <<i18n, pageData, rendered, locale, offered>>
    /\ UNCHANGED <<rvVars, modalVars, errorVars>>

\* The storefront answers the layout query.
LayoutSettle ==
    /\ layoutQuery = Pending
    /\ \E r \in {Fulfilled, FulfilledNull, Rejected} :
          layoutQuery' = AfterSettle("layout", r)
    /\ issued' = CountIssue("layout", layoutQuery')
    /\ UNCHANGED <<i18n, okendoQuery, call, deferred, loaderState, pageData,
                   rendered, locale, offered>>
    /\ UNCHANGED <<rvVars, modalVars, errorVars>>

\* The review provider answers.
OkendoSettle ==
    /\ okendoQuery = Pending
    /\ \E r \in {Fulfilled, Rejected} :
          okendoQuery' = AfterSettle("okendoProviderData", r)
    /\ issued' = CountIssue("okendoProviderData", okendoQuery')
    /\ UNCHANGED <<i18n, layoutQuery, call, deferred, loaderState, pageData,
                   rendered, locale, offered>>
    /\ UNCHANGED <<rvVars, modalVars, errorVars>>

\* The underlying call of one deferred fetch settles.
DeferredSettle(s) ==
    /\ call[s] = Pending
    /\ \E r \in {Fulfilled, Rejected} :
          call' = [call EXCEPT ![s] = AfterSettle(s, r)]
    /\ issued' = CountIssue(s, call'[s])
    /\ deferred' = IF deferred[s] = NotIssued THEN deferred
                   ELSE loadDeferredData(call')
    /\ UNCHANGED <<i18n, layoutQuery, okendoQuery, loaderState, pageData,
                   rendered, locale, offered>>
    /\ UNCHANGED <<rvVars, modalVars, errorVars>>

\* The continuation of `await loadCriticalData(args)`: the loader rejects if
\* the join rejected, and otherwise returns defer({...deferredData,
\* ...criticalData, ...}).
LoaderResume ==
    /\ loaderState = "awaitCritical"
    /\ AwaitSettled(CriticalJoin)
    /\ IF CriticalJoin = Rejected
       THEN /\ loaderState' = "failed"
            /\ pageData' = pageData
       ELSE /\ loaderState' = "returned"
            /\ pageData' = loadCriticalData(i18n, getLayoutData(layoutQuery),
                                            okendoQuery)
    /\ UNCHANGED <<i18n, layoutQuery, okendoQuery, call, deferred, issued,
                   rendered, locale, offered>>
    /\ UNCHANGED <<rvVars, modalVars, errorVars>>

\* ---------------------------------------------------------------------------
\* MainLayout
\* ---------------------------------------------------------------------------

\* useRouteLoaderData('root'): the loader's value once it has returned.
useRouteLoaderData == IF loaderState = "returned" THEN pageData ELSE NoData

\* const locale = data?.selectedLocale ?? DEFAULT_LOCALE
MainLayoutLocale_NoFallback(data) ==
    IF data = NoData THEN Undefined ELSE data.selectedLocale

MainLayoutLocale(data) ==
    IF data = NoData THEN DEFAULT_LOCALE
    ELSE IF data.selectedLocale = Undefined THEN DEFAULT_LOCALE
    ELSE data.selectedLocale

\* The deferred fields MainLayout passes on: cart={data.cart}, under `data ?`.
MainLayoutOffered(data) == IF data = NoData THEN {} ELSE {"cart"}

\* App (loader returned) or ErrorBoundary (loader failed) renders MainLayout.
RenderMainLayout ==
    /\ loaderState \in {"returned", "failed"}
    /\ ~rendered
    /\ rendered' = TRUE
    /\ locale' = MainLayoutLocale(useRouteLoaderData)
    /\ offered' = MainLayoutOffered(useRouteLoaderData)
    /\ UNCHANGED <<i18n, layoutQuery, okendoQuery, call, deferred, issued,
                   loaderState, pageData>>
    /\ UNCHANGED <<rvVars, modalVars, errorVars>>

\* ---------------------------------------------------------------------------
\* NcModal
\* ---------------------------------------------------------------------------

IsOpenProps == {Undefined, "true", "false"}

\* typeof isOpenProp === 'boolean'
TypeofBoolean(p) == p \in {"true", "false"}

\* !!isOpenProp
ToBoolean(p) == p = "true"

ModalIdle ==
    /\ isOpenProp = Undefined
    /\ hasOnClose = FALSE
    /\ isOpen = FALSE
    /\ effectPending = FALSE
    /\ lastOp = "idle"
    /\ onCloseFired = FALSE
    /\ onCloseCalls = 0

\* First render: useState(!!isOpenProp); the effect is scheduled on mount.
ModalInit ==
    /\ isOpenProp \in IsOpenProps
    /\ hasOnClose \in BOOLEAN
    /\ isOpen = ToBoolean(isOpenProp)
    /\ effectPending = TRUE
    /\ lastOp = "mount"
    /\ onCloseFired = FALSE
    /\ onCloseCalls = 0

\* The state closeModal leaves in isOpen.
closeModalState_Uncontrolled(p, open) == FALSE

closeModalState(p, open) == IF ~TypeofBoolean(p) THEN FALSE ELSE open

\* The state openModal leaves in isOpen.
openModalState_Uncontrolled(p, open) == TRUE

openModalState_Noop(p, open) == open

openModalState(p, open) == IF ~TypeofBoolean(p) THEN TRUE ELSE open

\* onCloseModal && onCloseModal()
closeModalCallback_OnlyUncontrolled(p, supplied) ==
    supplied /\ ~TypeofBoolean(p)

closeModalCallback(p, supplied) == supplied

\* closeModal (backdrop click, close button, Dialog onClose, content).
\* Event handlers run after the effects of the committed render.
closeModal ==
    /\ ~effectPending
    /\ onCloseCalls < MaxCloseCalls
    /\ isOpen' = closeModalState(isOpenProp, isOpen)
    /\ onCloseFired' = closeModalCallback(isOpenProp, hasOnClose)
    /\ onCloseCalls' = IF onCloseFired' THEN onCloseCalls + 1
                       ELSE onCloseCalls
    /\ lastOp' = "closeModal"
    /\ UNCHANGED <<isOpenProp, hasOnClose, effectPending>>
    /\ UNCHANGED <<rvVars, loaderVars, errorVars>>

\* openModal (trigger click).
openModal ==
    /\ ~effectPending
    /\ isOpen' = openModalState(isOpenProp, isOpen)
    /\ onCloseFired' = FALSE
    /\ lastOp' = "openModal"
    /\ UNCHANGED <<isOpenProp, hasOnClose, effectPending, onCloseCalls>>
    /\ UNCHANGED <<rvVars, loaderVars, errorVars>>

\* The parent re-renders NcModal with new props; the effect on [isOpenProp]
\* is scheduled when isOpenProp changed.
Rerender ==
    /\ \E p \in IsOpenProps :
        /\ isOpenProp' = p
        /\ effectPending' = (effectPending \/ p # isOpenProp)
    /\ hasOnClose' \in BOOLEAN
    /\ onCloseFired' = FALSE
    /\ lastOp' = "rerender"
    /\ UNCHANGED <<isOpen, onCloseCalls>>
    /\ UNCHANGED <<rvVars, loaderVars, errorVars>>

\* useEffect(() => setIsOpen(!!isOpenProp), [isOpenProp])
RunEffect ==
    /\ effectPending
    /\ isOpen' = ToBoolean(isOpenProp)
    /\ effectPending' = FALSE
    /\ UNCHANGED <<isOpenProp, hasOnClose, lastOp, onCloseFired, onCloseCalls>>
    /\ UNCHANGED <<rvVars, loaderVars, errorVars>>

\* ---------------------------------------------------------------------------
\* ErrorBoundary
\* ---------------------------------------------------------------------------

NotFoundStatus == 404

Statuses == {400 + k : k \in 0..MaxStatusOffset} \cup {500, 503}

\* The data of a route error response; "" is the empty (falsy) data.
ResponseData == {"", "product", "collection"}

\* Values of useRouteError(): route error responses, and anything else thrown.
RouteErrors ==
    [isRouteErrorResponse : {TRUE}, status : Statuses, data : ResponseData]
    \cup [isRouteErrorResponse : {FALSE}, status : {0}, data : {"thrown"}]

\* The error prop: an Error instance, another value, or nothing.
ErrorProps == {"Error", "other", Undefined}

NoBoundary == [component |-> "none"]

ErrorBoundaryRender_All4xx(re, err) ==
    IF re.isRouteErrorResponse
    THEN IF re.status < 500
         THEN [component |-> "NotFound",
               type |-> IF re.data # "" THEN re.data ELSE "page"]
         ELSE [component |-> "GenericError",
               error |-> [message |-> <<re.status, " ", re.data>>]]
    ELSE [component |-> "GenericError",
          error |-> IF err = "Error" THEN [instance |-> err]
                    ELSE [undefined |-> TRUE]]

\* What ErrorBoundary renders inside MainLayout.
ErrorBoundaryRender(re, err) ==
    IF re.isRouteErrorResponse
    THEN IF re.status = NotFoundStatus
         THEN [component |-> "NotFound",
               type |-> IF re.data # "" THEN re.data ELSE "page"]
         ELSE [component |-> "GenericError",
               error |-> [message |-> <<re.status, " ", re.data>>]]
    ELSE [component |-> "GenericError",
          error |-> IF err = "Error" THEN [instance |-> err]
                    ELSE [undefined |-> TRUE]]

ErrorIdle ==
    /\ routeError = NoBoundary
    /\ errorProp = Undefined
    /\ boundary = NoBoundary

ErrorInit ==
    /\ routeError \in RouteErrors
    /\ errorProp \in ErrorProps
    /\ boundary = NoBoundary

\* The router renders ErrorBoundary for the failed request.
RenderErrorBoundary ==
    /\ boundary.component = "none"
    /\ boundary' = ErrorBoundaryRender(routeError, errorProp)
    /\ UNCHANGED <<routeError, errorProp>>
    /\ UNCHANGED <<rvVars, loaderVars, modalVars>>

\* ---------------------------------------------------------------------------
\* Specifications
\* ---------------------------------------------------------------------------

Init == RevalidateIdle /\ LoaderInit /\ ModalIdle /\ ErrorIdle

Next ==
    \/ LoaderStartThrows
    \/ LoaderStart
    \/ LayoutSettle
    \/ OkendoSettle
    \/ \E s \in Slots : DeferredSettle(s)
    \/ LoaderResume
    \/ RenderMainLayout

Spec == Init /\ [][Next]_vars

\* The continuation of an await whose promise has settled is run by the event
\* loop, and the router renders once the loader has finished.  Nothing makes
\* a request to an external service settle.
FairSpec ==
    /\ Init
    /\ [][Next]_vars
    /\ WF_vars(LoaderStart)
    /\ WF_vars(LoaderStartThrows)
    /\ WF_vars(LoaderResume)
    /\ WF_vars(RenderMainLayout)

RevalidateNext == CallShouldRevalidate

RevalidateSpecInit ==
    RevalidateInit /\ LoaderIdle /\ ModalIdle /\ ErrorIdle

RevalidateSpec == RevalidateSpecInit /\ [][RevalidateNext]_vars

ModalNext == closeModal \/ openModal \/ Rerender \/ RunEffect

ModalSpecInit == RevalidateIdle /\ LoaderIdle /\ ModalInit /\ ErrorIdle

ModalSpec == ModalSpecInit /\ [][ModalNext]_vars

ErrorNext == RenderErrorBoundary

ErrorSpecInit == RevalidateIdle /\ LoaderIdle /\ ModalIdle /\ ErrorInit

ErrorSpec == ErrorSpecInit /\ [][ErrorNext]_vars

\* ---------------------------------------------------------------------------
\* Properties
\* ---------------------------------------------------------------------------

Mutating(m) == m # Undefined /\ m # "GET"

\* C1: for every navigation event whose method is present and is not GET,
\* shouldRevalidate returns true, whatever the URLs and the
\* defaultShouldRevalidate flag are.
C1_MutationRevalidates ==
    (rvCalled /\ Mutating(rvArgs.formMethod)) => rvResult = TRUE

C1_Witness ==
    /\ rvCalled
    /\ rvArgs.formMethod = "POST"
    /\ rvArgs.currentUrl # rvArgs.nextUrl
    /\ ~rvArgs.defaultShouldRevalidate
    /\ rvResult = TRUE

\* C2: for every navigation event whose method is absent or GET,
\* shouldRevalidate returns true exactly when the two URLs have the same
\* text, whatever the defaultShouldRevalidate flag is.
C2_ReadRevalidatesIffSameUrl ==
    (rvCalled /\ ~Mutating(rvArgs.formMethod)) =>
        (rvResult <=> UrlToString(rvArgs.currentUrl)
                        = UrlToString(rvArgs.nextUrl))

C2_Witness ==
    /\ rvCalled
    /\ rvArgs.formMethod = "GET"
    /\ rvArgs.currentUrl.pathname = rvArgs.nextUrl.pathname
    /\ rvArgs.currentUrl.search # rvArgs.nextUrl.search
    /\ rvArgs.defaultShouldRevalidate
    /\ rvResult = FALSE

CriticalFailed ==
    layoutQuery \in {Rejected, FulfilledNull} \/ okendoQuery = Rejected

\* C3: the loader returns PageData only when the layout query and the
\* review-provider call have both fulfilled with data; when either rejects or
\* the layout query yields no data, the loader does not return and no
\* PageData exists.
C3_CriticalJoinBeforeReturn ==
    /\ loaderState = "returned" =>
          /\ layoutQuery = Fulfilled
          /\ okendoQuery = Fulfilled
          /\ pageData # NoData
    /\ CriticalFailed => loaderState # "returned"
    /\ loaderState # "returned" => pageData = NoData

C3_Witness ==
    /\ loaderState = "failed"
    /\ layoutQuery = FulfilledNull
    /\ okendoQuery = Fulfilled

\* C4: when the underlying call of a deferred fetch rejects, the field of
\* PageData holding it does not reject.
C4_DeferredFailureConverted ==
    \A s \in Slots :
        (call[s] = Rejected /\ deferred[s] # NotIssued) =>
            deferred[s] # Rejected

\* C5: a step in which one deferred call settles changes no other deferred
\* field and no part of the critical bundle or of the loader's outcome; every
\* field carries the state of its own call; the loader never fails when both
\* critical fetches fulfilled.
C5_Step ==
    /\ \A s \in Slots :
          call'[s] # call[s] /\ call[s] = Pending =>
              /\ \A t \in Slots \ {s} :
                    deferred'[t] = deferred[t] /\ call'[t] = call[t]
              /\ UNCHANGED <<layoutQuery, okendoQuery, pageData, loaderState>>
    /\ \A t \in Slots : deferred'[t] # NotIssued => deferred'[t] = call'[t]
    /\ loaderState' = "failed" =>
          ~(layoutQuery' = Fulfilled /\ okendoQuery' = Fulfilled)

C5_DeferredSlotsIndependent == [][C5_Step]_vars

C5_Witness ==
    /\ call["cart"] = Rejected
    /\ deferred["headerPromise"] = Fulfilled
    /\ deferred["footerPromise"] = Pending
    /\ loaderState = "returned"
    /\ pageData # NoData

\* C6: once both critical fetches have fulfilled, the loader returns
\* PageData, whether or not any deferred fetch ever settles.
C6_ReturnDependsOnCriticalOnly ==
    (loaderState = "awaitCritical" /\ CriticalJoin = Fulfilled)
        ~> (loaderState = "returned")

C6_Witness ==
    /\ loaderState = "returned"
    /\ \A s \in Slots : call[s] = Pending

\* C7: a deferred slot is handed to the rendering layer only when the
\* critical join has fulfilled or the request has failed, never while the
\* join is pending.
C7_CriticalBeforeDeferredOffered ==
    offered # {} =>
        /\ CriticalJoin # Pending
        /\ CriticalJoin = Fulfilled \/ loaderState = "failed"

C7_Witness ==
    /\ offered = {"cart"}
    /\ call["cart"] = Pending
    /\ CriticalJoin = Fulfilled

C9_ModalControl ==
    /\ (lastOp \in {"openModal", "closeModal"} /\ TypeofBoolean(isOpenProp))
          => isOpen = ToBoolean(isOpenProp)
    /\ (lastOp = "openModal" /\ ~TypeofBoolean(isOpenProp)) => isOpen
    /\ (lastOp = "closeModal" /\ ~TypeofBoolean(isOpenProp)) => ~isOpen
    /\ (lastOp = "closeModal" /\ hasOnClose) => onCloseFired

C9_Witness ==
    /\ lastOp = "closeModal"
    /\ isOpenProp = "true"
    /\ isOpen
    /\ onCloseFired
    /\ onCloseCalls = 2

\* C10: ErrorBoundary renders NotFound exactly when the error is a route
\* error response with status 404, and GenericError for every other error.
C10_NotFoundIff404 ==
    boundary.component # "none" =>
        /\ boundary.component \in {"NotFound", "GenericError"}
        /\ boundary.component = "NotFound" <=>
              (routeError.isRouteErrorResponse
                 /\ routeError.status = NotFoundStatus)

C10_Witness ==
    /\ boundary.component = "GenericError"
    /\ routeError.isRouteErrorResponse
    /\ routeError.status = 403

\* The promise state of a data source, given the three promise variables.
SourceState(src, l, o, c) ==
    IF src = "layout" THEN l
    ELSE IF src = "okendoProviderData" THEN o
    ELSE c[src]

Settled(p) == p \in {Fulfilled, FulfilledNull, Rejected}

\* C11: within one loader invocation every data source is invoked at most
\* once; the promise of a settled call, failed or not, never changes again
\* and its source is never invoked again; the loader never returns after a
\* failed critical fetch.
C11_Step ==
    /\ \A src \in Sources : issued'[src] <= 1
    /\ \A src \in Sources :
          Settled(SourceState(src, layoutQuery, okendoQuery, call)) =>
              /\ SourceState(src, layoutQuery', okendoQuery', call')
                   = SourceState(src, layoutQuery, okendoQuery, call)
              /\ issued'[src] = issued[src]
    /\ \A src \in Sources :
          Settled(SourceState(src, layoutQuery', okendoQuery', call')) =>
              issued'[src] = 1
    /\ (layoutQuery' \in {Rejected, FulfilledNull} \/ okendoQuery' = Rejected)
          => loaderState' # "returned"

C11_NoRetries == [][C11_Step]_vars

C11_Witness ==
    /\ call["headerPromise"] = Rejected
    /\ issued["headerPromise"] = 1
    /\ layoutQuery = Rejected
    /\ issued["layout"] = 1
    /\ loaderState = "failed"
    /\ rendered

====
